---- MODULE Spec2Model ----
(***************************************************************************)
(* hll_server_status: the per-section polling / dispatch / persistence     *)
(* engine of src/hll_server_status/io.py as a state machine.               *)
(*                                                                         *)
(* Three specifications share the module's variables:                      *)
(*   SpecStore  the Message-ID store: load, validate, set and flush        *)
(*   Spec       the producer / dispatch-worker pipeline of one server      *)
(*   SpecApi    get_api_result under with_retry and with_login             *)
(***************************************************************************)
EXTENDS Integers, Sequences, FiniteSets, TLC

(***************************************************************************)
(* Bounds of the model.                                                    *)
(***************************************************************************)
\* highest message id the model lets an existing document or the remote hold
MaxId == 2
\* payloads one producer builds
MaxTicks == 2
\* failures the environment injects in one run: failed builds, answers
\* other than success, deleted messages, an interrupt
MaxFaults == 2
\* the most calls of get_api_result a section makes
MaxCalls == 2
\* the most failures injected into the API client while three sections call
MaxApiFaults == 1
\* the most failures injected into the API client while one section calls
MaxRetryFaults == 11
\* the most values of one JSON type, less one
MaxJson == 4
\* the most calls of login()
MaxLogins == 20
\* the most failures injected while the producer's sleeps are followed
MaxBackoffs == 6
\* the clock is read in ticks: this many to the second
TicksPerSecond == 4
\* the longest a tick takes up to the end of its send, in ticks
MaxElapsed == 10
\* the largest time_between_refreshes of a section, in seconds
MaxRefresh == 3

(***************************************************************************)
(* Program constants.                                                      *)
(***************************************************************************)
NONE_MESSAGE_ID == 0
MESSAGES_DIR == "messages/"
\* Python's None where a message id is expected
None == -1
\* an unset (None or empty, so falsy) string setting of the config
Unset == ""
\* a value of the persisted document that is a TOML string, not an integer
TomlString == -2

\* constants.MESSAGE_ID_FORMAT: the table of the persisted document and the
\* known section keys (two of the sections of get_producer_config_values)
TABLE_NAME == "message_ids"
FIELDS == <<"header", "gamestate">>
\* a section key this process does not know
UNKNOWN_FIELD == "legacy"

\* constants.MESSAGE_FILE_FORMAT.format(key=server_identifier)
MESSAGE_FILE_FORMAT(server_identifier) == server_identifier \o ".toml"

Servers == {"alpha"}

(***************************************************************************)
(* TOML tables and documents (tomlkit).  A table is its body: the sequence *)
(* of <<key, value>> items in insertion order.  A document holds at most   *)
(* one table, by reference into the server's heap of table objects, so     *)
(* that two documents can share one table object.                          *)
(***************************************************************************)
Refs == {1, 2}
\* a document without the table (an empty tomlkit document is falsy)
NoTable == 0
\* no document at all (last_saved_message_ids before the first flush)
NoDoc == -1

Range(f) == {f[i] : i \in DOMAIN f}

TableKeys(t) == {t[i][1] : i \in DOMAIN t}

TableGet(t, k) == t[CHOOSE i \in DOMAIN t : t[i][1] = k][2]

\* table[key] = value: an existing item is replaced in place, a new one appended
TableSet(t, k, v) ==
    IF k \in TableKeys(t)
    THEN [i \in DOMAIN t |-> IF t[i][1] = k THEN <<k, v>> ELSE t[i]]
    ELSE Append(t, <<k, v>>)

\* the mapping a table stands for (dict equality ignores the order of the body)
AsDict(t) == {t[i] : i \in DOMAIN t}

(***************************************************************************)
(* The persisted file: a sequence of lines.  <<"hdr", name>> opens a       *)
(* table, <<"kv", key, value>> is an item of the open table, <<"top", v>>  *)
(* is a top-level item named like the table whose value is a scalar, and   *)
(* <<"junk">> is text that is no TOML.                                     *)
(***************************************************************************)
HdrLine == <<"hdr", TABLE_NAME>>
KvLine(k, v) == <<"kv", k, v>>
TopLine == <<"top", TABLE_NAME>>
JunkLine == <<"junk">>

\* tomlkit.dumps of a document whose table is `t` (hasTable) or that is empty
dumps(hasTable, t) ==
    IF hasTable
    THEN <<HdrLine>> \o [i \in DOMAIN t |-> KvLine(t[i][1], t[i][2])]
    ELSE <<>>

RECURSIVE ParseItems(_, _, _)
\* the items of lines[i..] read into table `acc`; <<FALSE, _>> on a repeated key
ParseItems(lines, i, acc) ==
    IF i > Len(lines) THEN <<TRUE, acc>>
    ELSE IF lines[i][1] # "kv" THEN <<FALSE, acc>>
    ELSE IF lines[i][2] \in TableKeys(acc) THEN <<FALSE, acc>>
    ELSE ParseItems(lines, i + 1, Append(acc, <<lines[i][2], lines[i][3]>>))

\* tomlkit.loads: [ok] FALSE is a ParseError; [kind] says what the document
\* holds under TABLE_NAME: nothing, a table, or a scalar
loads(lines) ==
    IF lines = <<>> THEN [ok |-> TRUE, kind |-> "none", table |-> <<>>]
    ELSE IF lines = <<TopLine>> THEN [ok |-> TRUE, kind |-> "scalar", table |-> <<>>]
    ELSE IF lines[1] # HdrLine THEN [ok |-> FALSE, kind |-> "none", table |-> <<>>]
    ELSE LET r == ParseItems(lines, 2, <<>>)
         IN  [ok |-> r[1], kind |-> "table", table |-> r[2]]

(***************************************************************************)
(* Files.  A path is <<directory, file name>>.                             *)
(***************************************************************************)
CUSTOM_DIR == "custom/"
CUSTOM_FILE == "custom.toml"
Paths == {MESSAGES_DIR, CUSTOM_DIR} \X ({MESSAGE_FILE_FORMAT(s) : s \in Servers} \cup {CUSTOM_FILE})

AbsentFile == [exists |-> FALSE, lines |-> <<>>]
File(lines) == [exists |-> TRUE, lines |-> lines]

\* config.output: message_id_directory and message_id_filename, None when unset
OutputConfigs == [message_id_directory : {Unset, CUSTOM_DIR},
                  message_id_filename : {Unset, CUSTOM_FILE}]
DefaultOutput == [message_id_directory |-> Unset, message_id_filename |-> Unset]

\* the file save_message_ids_to_disk(app_store, config) writes
save_file(server_identifier, output) ==
    <<IF output.message_id_directory # Unset
      THEN output.message_id_directory ELSE MESSAGES_DIR,
      IF output.message_id_filename # Unset
      THEN output.message_id_filename ELSE MESSAGE_FILE_FORMAT(server_identifier)>>

\* the file load_message_ids_from_disk(app_store) reads: load_message_ids
\* passes neither path nor filename
load_file(server_identifier) == <<MESSAGES_DIR, server_identifier \o ".toml">>

\* (mutant) a validation that rebuilds the table from the known keys
AddMissingKnownOnly(t, i) ==
    [k \in DOMAIN FIELDS |->
        <<FIELDS[k], IF FIELDS[k] \in TableKeys(t) THEN TableGet(t, FIELDS[k])
                     ELSE NONE_MESSAGE_ID>>]

RECURSIVE AddMissing(_, _)
\* the loop of validate_message_ids_format over FIELDS[i..]
AddMissing(t, i) ==
    IF i > Len(FIELDS) THEN t
    ELSE AddMissing(IF FIELDS[i] \in TableKeys(t) THEN t
                    ELSE Append(t, <<FIELDS[i], NONE_MESSAGE_ID>>), i + 1)

\* validate_message_ids_format on a document holding `kind` under TABLE_NAME:
\* a missing table is created, a scalar there raises ("field not in table")
validate_message_ids_format(kind, t) ==
    IF kind = "scalar" THEN [raised |-> TRUE, table |-> <<>>]
    ELSE [raised |-> FALSE, table |-> AddMissing(IF kind = "none" THEN <<>> ELSE t, 1)]

\* load_message_ids for a store whose document is still empty, against the
\* file `f`: only FileNotFoundError is caught
load_message_ids(f) ==
    IF ~f.exists THEN validate_message_ids_format("none", <<>>)
    ELSE LET doc == loads(f.lines)
         IN  IF ~doc.ok THEN [raised |-> TRUE, table |-> <<>>]
             ELSE validate_message_ids_format(doc.kind, doc.table)

\* (mutant) the table is replaced by one that holds the entry alone
save_message_id_Replaces(t, key, message_id) ==
    <<<<key, IF message_id = None THEN NONE_MESSAGE_ID ELSE message_id>>>>

\* save_message_id: None is stored as NONE_MESSAGE_ID
save_message_id(t, key, message_id) ==
    TableSet(t, key, IF message_id = None THEN NONE_MESSAGE_ID ELSE message_id)

(***************************************************************************)
(* State.                                                                  *)
(***************************************************************************)
VARIABLES
    \* AppStore, one per server
    heap,                    \* the table objects: [Servers -> [Refs -> table]]
    message_ids,             \* app_store.message_ids: NoTable or the ref of its table
    last_saved_message_ids,  \* NoDoc, or the table ref of the copied document
    \* the file system
    files,                   \* [Paths -> file]
    cfgfile,                 \* the config file of each server
    \* the store exercised on its own (SpecStore)
    spc,                     \* where the store process stands
    soutput,                 \* config.output of that process
    persisted,               \* the mapping the last flush serialized
    \* queue_webhook_update, one per job
    ppc,                     \* where the producer stands
    pconfig,                 \* its local `config`
    penabled,                \* its local `enabled`
    pwebhook_url,            \* its local `webhook_url`
    pmessage_id,             \* its local `message_id`
    pback,                   \* position in cycle([1, 2, 3, 4, 5])
    psleep,                  \* its local `time_to_sleep` or `backoff`, in seconds
    pelapsed,                \* end_time - start_time_ns of its last send, in ticks
    ptick,                   \* payloads built so far
    offer,                   \* the payload its pending send offers
    chan,                    \* per job, the buffer of its channel
    \* send_queued_webhook_update, one per job
    wpc,                     \* where the dispatch worker stands
    wpayload,                \* the payload it received last
    wmessage_id,             \* its local `message_id`
    wbuf,                    \* toml_string of the flush it is in
    \* the webhook service
    live,                    \* ids of the messages that exist
    nextId,                  \* ids issued so far
    \* the nursery
    cancelling,              \* the tasks' cancel scope is cancelled
    faults,                  \* failures injected so far
    \* history
    sentLog,                 \* per job, the payloads whose send completed
    dispLog,                 \* per job, the payloads handed to send_for_webhook
    wlast,                   \* per job, the last call of send_for_webhook
    perr,                    \* per job, the exception its last poll ended with
    writes,                  \* per server, the calls of save_message_ids_to_disk
    pfails,                  \* per job, the polls that ended in a backoff
    \* the CRCON API client of one server (its AppStore)
    cookies,                 \* app_store.cookies.get("sessionid"), NoCookie if absent
    logging_in,              \* app_store.logging_in
    sessions,                \* the session ids the CRCON server accepts
    logins,                  \* calls of login() so far
    apc,                     \* per caller, where its get_api_result stands
    anum,                    \* per caller, `num` of with_retry
    asent,                   \* per caller, the cookie its request carries
    aerr,                    \* per caller, the exception that left get_api_result
    alast,                   \* per caller, the response to its last request
    acalls,                  \* per caller, calls of get_api_result so far
    abudget,                 \* failures the API may still inject
    cached,                  \* the AppStore started with a cached credential
    sametick,                \* the first requests of all sections were under way together
    relogin,                 \* a 401 was received and no attempt has started since
    \* time
    clock,                   \* refresh_delay of the sections, and the elapsed times
                             \* perf_counter_ns can show for one tick
    \* the tail of get_api_result exercised on its own (SpecResult)
    jpc,                     \* where the call stands
    jresponse,               \* the response it received
    jreturn                  \* what it returned

storeVars == <<heap, message_ids, last_saved_message_ids, files>>
prodVars == <<ppc, pconfig, penabled, pwebhook_url, pmessage_id, pback, psleep,
              pelapsed, ptick, offer>>
workVars == <<wpc, wpayload, wmessage_id, wbuf>>
envVars == <<cfgfile, chan, live, nextId, cancelling>>
histVars == <<sentLog, dispLog, wlast, perr, writes, pfails>>
apiVars == <<cookies, logging_in, sessions, logins, apc, anum, asent, aerr, alast,
             acalls, abudget, cached, sametick, relogin>>
resultVars == <<jpc, jresponse, jreturn>>
soloVars == <<spc, soutput, persisted, apiVars, clock, resultVars>>
vars == <<storeVars, soloVars, prodVars, workVars, envVars, histVars, faults>>

(***************************************************************************)
(* Jobs: one per (server, section key).                                    *)
(***************************************************************************)
Jobs == Servers \X Range(FIELDS)
Srv(j) == j[1]
Key(j) == j[2]

URLS == {"hook1", "hook2"}
\* a config file: it validates or not, and when it does it gives the
\* enabled sections, discord.webhook_url and output
ConfigValues == [valid : BOOLEAN, enabled : SUBSET Range(FIELDS),
                 webhook_url : URLS, output : OutputConfigs]
\* no call of send_for_webhook made, or one under way
NoCall == [message_id |-> None, response |-> "none", created |-> FALSE,
           raised |-> FALSE, result |-> None, retry_after |-> 0, slept |-> 0,
           stored |-> None]
NoPayload == [seq |-> 0, message_id |-> None, webhook_url |-> "hook1",
              output |-> DefaultOutput]

\* a freshly constructed AppStore: an empty document, nothing saved yet
NewHeap == [s \in Servers |-> [r \in Refs |-> <<>>]]
NewMessageIds == [s \in Servers |-> NoTable]
NewLastSaved == [s \in Servers |-> NoDoc]

\* the table of app_store.message_ids
Table(s) == heap[s][message_ids[s]]

\* copy(app_store.message_ids): a new document that holds the SAME table
\* object (copy is shallow), given as the ref of the table the copy holds
CopyDeep(s) == CHOOSE r \in Refs : r # message_ids[s]
copy(s) == message_ids[s]

\* app_store.message_ids != app_store.last_saved_message_ids (by value)
DiffersFromLastSaved(s) ==
    AsDict(Table(s)) # AsDict(heap[s][last_saved_message_ids[s]])

\* the sections of one server that call the API
Callers == 1..3
\* no sessionid in app_store.cookies
NoCookie == 0
\* the session id of the cached credential
CACHED_SESSION == 1
\* no response received by the attempt under way
NoResponse == [status |-> "none", body |-> "none"]

\* no API call: a fresh AppStore, every caller at rest
ApiIdle ==
    /\ cookies = NoCookie
    /\ logging_in = FALSE
    /\ sessions = {}
    /\ logins = 0
    /\ apc = [c \in Callers |-> "done"]
    /\ anum = [c \in Callers |-> 0]
    /\ asent = [c \in Callers |-> NoCookie]
    /\ aerr = [c \in Callers |-> "none"]
    /\ alast = [c \in Callers |-> NoResponse]
    /\ acalls = [c \in Callers |-> 0]
    /\ abudget = 0
    /\ cached = FALSE
    /\ sametick = FALSE
    /\ relogin = FALSE

pipeVars == <<prodVars, workVars, envVars, histVars, faults, apiVars, clock,
              resultVars>>

\* what the run is timed by: the section's time_between_refreshes (seconds)
\* and the values end_time - start_time_ns can take (ticks)
Clocks == [elapsed : {0..MaxElapsed}, refresh_delay : 1..MaxRefresh]
\* a run whose sends complete at once
SteadyClock == [elapsed |-> {0}, refresh_delay |-> 1]

\* round(x, ndigits=0) of the quotient n / d: to the nearest integer, a tie
\* to the even one
round(n, d) ==
    LET q == n \div d
        r == n % d
    IN  IF 2 * r < d THEN q
        ELSE IF 2 * r > d THEN q + 1
        ELSE IF q % 2 = 0 THEN q ELSE q + 1

\* (mutant) the rounded difference is returned as it is
calculate_sleep_time_Unclamped(start_time_ns, end_time_ns, refresh_delay_seconds) ==
    LET elapsed_time_ns == end_time_ns - start_time_ns
        refresh_delay_ns == refresh_delay_seconds * TicksPerSecond
    IN  round(refresh_delay_ns - elapsed_time_ns, TicksPerSecond)

\* calculate_sleep_time, the times being in ticks and the result in seconds
calculate_sleep_time(start_time_ns, end_time_ns, refresh_delay_seconds) ==
    LET elapsed_time_ns == end_time_ns - start_time_ns
        refresh_delay_ns == refresh_delay_seconds * TicksPerSecond
        time_to_sleep == round(refresh_delay_ns - elapsed_time_ns, TicksPerSecond)
    IN  IF time_to_sleep > 0 THEN time_to_sleep ELSE 1

\* (mutant) every section counts as enabled
get_producer_config_values_Enabled(config, key) == key = key

\* the `enabled` of get_producer_config_values(config, key)
get_producer_config_values(config, key) == key \in config.enabled

\* (mutant) a schedule that stays at its last value
back_offs_Capped == <<1, 2, 3, 4, 5, 5, 5>>
\* back_offs = cycle([1, 2, 3, 4, 5])
back_offs == <<1, 2, 3, 4, 5>>

\* the JSON types of response.json()["result"]
JsonTypes == {"null", "bool", "int", "float", "str", "list", "dict"}
\* a JSON value: its type and which value of that type it is
JsonValues == [type : JsonTypes, v : 0..MaxJson]
NoJson == [type |-> "null", v |-> 0]
NoReturn == [wrapped |-> FALSE, value |-> NoJson]

\* no call of get_api_result is followed for its result
ResultIdle ==
    /\ jpc = "off"
    /\ jresponse = [status |-> "none", result |-> NoJson]
    /\ jreturn = NoReturn

\* no pipeline: every producer and worker ended, nothing in flight
PipeIdle ==
    /\ clock = SteadyClock
    /\ cfgfile = [s \in Servers |-> [valid |-> TRUE, enabled |-> {},
                                     webhook_url |-> "hook1", output |-> DefaultOutput]]
    /\ ppc = [j \in Jobs |-> "done"]
    /\ pconfig = [j \in Jobs |-> cfgfile[Srv(j)]]
    /\ penabled = [j \in Jobs |-> FALSE]
    /\ pwebhook_url = [j \in Jobs |-> "hook1"]
    /\ pmessage_id = [j \in Jobs |-> None]
    /\ pback = [j \in Jobs |-> 0]
    /\ psleep = [j \in Jobs |-> 0]
    /\ pelapsed = [j \in Jobs |-> 0]
    /\ ptick = [j \in Jobs |-> 0]
    /\ offer = [j \in Jobs |-> NoPayload]
    /\ chan = [j \in Jobs |-> <<>>]
    /\ wpc = [j \in Jobs |-> "closed"]
    /\ wpayload = [j \in Jobs |-> NoPayload]
    /\ wmessage_id = [j \in Jobs |-> None]
    /\ wbuf = [j \in Jobs |-> <<>>]
    /\ live = {}
    /\ nextId = 0
    /\ cancelling = FALSE
    /\ faults = 0
    /\ sentLog = [j \in Jobs |-> <<>>]
    /\ dispLog = [j \in Jobs |-> <<>>]
    /\ wlast = [j \in Jobs |-> NoCall]
    /\ perr = [j \in Jobs |-> "none"]
    /\ writes = [s \in Servers |-> 0]
    /\ pfails = [j \in Jobs |-> 0]

(***************************************************************************)
(* SpecStore: one process loads the store, sets ids, flushes, and a fresh  *)
(* process loads again.                                                    *)
(***************************************************************************)
AllKeys == Range(FIELDS) \cup {UNKNOWN_FIELD}
Ids == 0..MaxId

\* every table body over AllKeys without a repeated key
Tables == UNION {
    {t \in [1..n -> AllKeys \X Ids] : \A i, j \in 1..n : i # j => t[i][1] # t[j][1]}
    : n \in 0..Cardinality(AllKeys)}

InitialFiles ==
    {AbsentFile, File(<<>>), File(<<JunkLine>>), File(<<TopLine>>),
     File(<<HdrLine, KvLine(FIELDS[1], 1), JunkLine>>),
     File(<<HdrLine, KvLine(FIELDS[1], 1), KvLine(FIELDS[1], 2)>>),
     File(<<HdrLine, KvLine(FIELDS[1], TomlString)>>)}
    \cup {File(dumps(TRUE, t)) : t \in Tables}

InitStore ==
    /\ heap = NewHeap
    /\ message_ids = NewMessageIds
    /\ last_saved_message_ids = NewLastSaved
    /\ \E f \in InitialFiles :
         files = [p \in Paths |-> IF p = load_file("alpha") THEN f ELSE AbsentFile]
    /\ spc = "start"
    /\ soutput \in OutputConfigs
    /\ persisted = {}
    /\ PipeIdle
    /\ ApiIdle
    /\ ResultIdle

\* load_message_ids(app_store) of the process at `from`, ending at `ok` or `raised`
DoLoad(s, ok, raised) ==
    IF message_ids[s] # NoTable
    THEN /\ spc' = ok
         /\ UNCHANGED <<heap, message_ids>>
    ELSE LET r == load_message_ids(files[load_file(s)])
         IN  IF r.raised
             THEN /\ spc' = raised
                  /\ UNCHANGED <<heap, message_ids>>
             ELSE /\ spc' = ok
                  /\ heap' = [heap EXCEPT ![s][1] = r.table]
                  /\ message_ids' = [message_ids EXCEPT ![s] = 1]

StoreLoad(s) ==
    /\ spc = "start"
    /\ DoLoad(s, "loaded", "load_raised")
    /\ UNCHANGED <<last_saved_message_ids, files, soutput, persisted, pipeVars>>

\* save_message_id(app_store, table_name, key, message_id)
StoreSet(s, key, message_id) ==
    /\ spc \in {"loaded", "dirty"}
    /\ heap' = [heap EXCEPT ![s][message_ids[s]] = save_message_id(@, key, message_id)]
    /\ spc' = "dirty"
    /\ UNCHANGED <<message_ids, last_saved_message_ids, files, soutput, persisted, pipeVars>>

\* save_message_ids_to_disk(app_store, config), run to its end
StoreFlush(s) ==
    /\ spc \in {"loaded", "dirty"}
    /\ files' = [files EXCEPT ![save_file(s, soutput)] = File(dumps(TRUE, Table(s)))]
    /\ persisted' = AsDict(Table(s))
    /\ spc' = "saved"
    /\ UNCHANGED <<heap, message_ids, last_saved_message_ids, soutput, pipeVars>>

\* the process ends; a fresh one, with the same config, constructs its
\* AppStore and loads
StoreRestart(s) ==
    /\ spc = "saved"
    /\ LET r == load_message_ids(files[load_file(s)])
       IN  /\ spc' = IF r.raised THEN "reload_raised" ELSE "reloaded"
           /\ heap' = [NewHeap EXCEPT ![s][1] = r.table]
           /\ message_ids' = [NewMessageIds EXCEPT ![s] = IF r.raised THEN NoTable ELSE 1]
           /\ last_saved_message_ids' = NewLastSaved
    /\ UNCHANGED <<files, soutput, persisted, pipeVars>>

NextStore ==
    \E s \in Servers :
        \/ StoreLoad(s)
        \/ \E key \in Range(FIELDS), id \in Ids \cup {None} : StoreSet(s, key, id)
        \/ StoreFlush(s)
        \/ StoreRestart(s)

SpecStore == InitStore /\ [][NextStore]_vars

(***************************************************************************)
(* The dispatcher.                                                         *)
(***************************************************************************)
\* bool(message_id): None and 0 are falsy
Truthy(message_id) == message_id # None /\ message_id # 0

\* what the webhook service or the transport answers to one edit or create
Responses == {"200", "404", "429", "connect_error", "http_error", "unexpected"}

\* the retry_after, in seconds, a rate-limited answer can carry
RetryAfters == {1, 2}
\* the 0.15 s added to retry_after, in hundredths of a second
SAFETY_MARGIN == 15
\* config.settings.disabled_section_sleep_timer, in seconds
DISABLED_SECTION_SLEEP_TIMER == 3

\* how long send_for_webhook sleeps, in hundredths of a second
sleep_time(slept, retry_after) ==
    CASE slept = "retry_after" -> retry_after * 100 + SAFETY_MARGIN
      [] slept = "disabled_section_sleep_timer" -> DISABLED_SECTION_SLEEP_TIMER * 100
      [] OTHER -> 0

\* (mutant) RateLimited leaves send_for_webhook
send_for_webhook_429Raises(message_id, response, new_id) ==
    LET created == response = "200" /\ ~Truthy(message_id)
        id_after == IF created THEN new_id ELSE message_id
    IN  CASE response = "connect_error" ->
               [raised |-> FALSE, slept |-> "disabled_section_sleep_timer",
                result |-> message_id]
          [] response = "http_error" ->
               [raised |-> FALSE, slept |-> "none", result |-> None]
          [] response = "unexpected" ->
               [raised |-> TRUE, slept |-> "none", result |-> message_id]
          [] id_after = None ->
               [raised |-> TRUE, slept |-> "none", result |-> message_id]
          [] response = "404" ->
               [raised |-> FALSE, slept |-> "none", result |-> None]
          [] response = "429" ->
               [raised |-> TRUE, slept |-> "none", result |-> id_after]
          [] OTHER ->
               [raised |-> FALSE, slept |-> "none", result |-> id_after]

\* (mutant) a rate-limited call returns None
send_for_webhook_429None(message_id, response, new_id) ==
    IF response = "429"
    THEN [raised |-> FALSE, slept |-> "retry_after", result |-> None]
    ELSE IF response = "unexpected" \/ message_id = None
    THEN [raised |-> TRUE, slept |-> "none", result |-> message_id]
    ELSE [raised |-> FALSE,
          slept |-> IF response = "connect_error"
                    THEN "disabled_section_sleep_timer" ELSE "none",
          result |-> IF response \in {"404", "http_error"} THEN None
                     ELSE IF response = "200" /\ message_id = 0 THEN new_id
                     ELSE message_id]

\* (mutant) a call that could not connect returns None
send_for_webhook_ConnectNone(message_id, response, new_id) ==
    IF response = "connect_error"
    THEN [raised |-> FALSE, slept |-> "disabled_section_sleep_timer", result |-> None]
    ELSE IF response = "unexpected" \/ message_id = None
    THEN [raised |-> TRUE, slept |-> "none", result |-> message_id]
    ELSE [raised |-> FALSE,
          slept |-> IF response = "429" THEN "retry_after" ELSE "none",
          result |-> IF response \in {"404", "http_error"} THEN None
                     ELSE IF response = "200" /\ message_id = 0 THEN new_id
                     ELSE message_id]

\* (mutant) the not-found answer leaves message_id as it was
send_for_webhook_KeepsId(message_id, response, new_id) ==
    IF response \in {"404", "http_error"}
    THEN [raised |-> FALSE, slept |-> "none", result |-> message_id]
    ELSE IF response = "unexpected" \/ message_id = None
    THEN [raised |-> TRUE, slept |-> "none", result |-> message_id]
    ELSE [raised |-> FALSE,
          slept |-> IF response = "429" THEN "retry_after"
                    ELSE IF response = "connect_error"
                    THEN "disabled_section_sleep_timer" ELSE "none",
          result |-> IF response = "200" /\ message_id = 0 THEN new_id ELSE message_id]

\* send_for_webhook(message_id) when the edit (a truthy message_id) or the
\* create is answered by `response`; `new_id` is the id a successful create
\* issues.  [raised]: an exception leaves the call; [slept]: the sleep it
\* made; [result]: the value it returns.
\*   webhook.id is str(message_id) unless a successful create replaced it,
\*   and int(webhook.id) is taken before the status is looked at
send_for_webhook(message_id, response, new_id) ==
    LET created == response = "200" /\ ~Truthy(message_id)
        id_after == IF created THEN new_id ELSE message_id
    IN  CASE response = "connect_error" ->
               [raised |-> FALSE, slept |-> "disabled_section_sleep_timer",
                result |-> message_id]
          [] response = "http_error" ->
               [raised |-> FALSE, slept |-> "none", result |-> None]
          [] response = "unexpected" ->
               [raised |-> TRUE, slept |-> "none", result |-> message_id]
          [] id_after = None ->
               \* int("None"): ValueError
               [raised |-> TRUE, slept |-> "none", result |-> message_id]
          [] response = "404" ->
               [raised |-> FALSE, slept |-> "none", result |-> None]
          [] response = "429" ->
               [raised |-> FALSE, slept |-> "retry_after", result |-> id_after]
          [] OTHER ->
               [raised |-> FALSE, slept |-> "none", result |-> id_after]

\* the answers the service can give to the request send_for_webhook makes
Answers(message_id) ==
    (IF Truthy(message_id)
     THEN (IF message_id \in live THEN {"200"} ELSE {"404"})
     ELSE (IF nextId < MaxId THEN {"200", "404"} ELSE {"404"}))
    \cup {"429", "connect_error", "http_error", "unexpected"}

(***************************************************************************)
(* Spec: the pipeline.  Each job has a producer (queue_webhook_update) and *)
(* a dispatch worker (send_queued_webhook_update) joined by a channel.     *)
(***************************************************************************)
\* (mutant) a channel that buffers one payload
CapacityOne == 0 + 1
\* the buffer size of the job's memory channel: open_memory_channel(0)
CHANNEL_CAPACITY == 0

\* the jobs Spec runs: the first section of the server
ActiveJobs == {j \in Jobs : Key(j) = FIELDS[1]}

StartFiles == {AbsentFile, File(dumps(TRUE, <<<<FIELDS[1], 1>>>>))}
\* discord.webhook_url of the config the supervisor loaded
StartUrl == "hook1"
StartConfigs == {c \in ConfigValues :
                    /\ c.webhook_url = StartUrl /\ c.output = DefaultOutput
                    /\ Cardinality(c.enabled) >= Len(FIELDS) - 1
                    /\ ~c.valid => c.enabled = Range(FIELDS)}

\* the state once the supervisor has loaded the store and started the
\* producer and the worker of every job in `active`, the persisted file
\* being one of `start`; `injected` failures count as made already
PipeStartWith(active, start, injected, clocks, configs) ==
    /\ ResultIdle
    /\ clock \in clocks
    /\ \E f \in start :
         /\ files = [p \in Paths |-> IF p = load_file("alpha") THEN f ELSE AbsentFile]
         /\ heap = [s \in Servers |-> [r \in Refs |->
                       IF r = 1 THEN load_message_ids(f).table ELSE <<>>]]
         /\ nextId = IF f.exists THEN 1 ELSE 0
         /\ live \in SUBSET (1..nextId)
    /\ message_ids = [s \in Servers |-> 1]
    /\ last_saved_message_ids = NewLastSaved
    /\ spc = "off"
    /\ soutput = DefaultOutput
    /\ persisted = {}
    /\ cfgfile \in [Servers -> configs]
    /\ ppc = [j \in Jobs |-> IF j \in active THEN "tick" ELSE "done"]
    /\ pconfig = [j \in Jobs |-> [cfgfile[Srv(j)] EXCEPT !.valid = TRUE,
                                                         !.webhook_url = StartUrl]]
    /\ penabled = [j \in Jobs |-> get_producer_config_values(cfgfile[Srv(j)], Key(j))]
    /\ pwebhook_url = [j \in Jobs |-> pconfig[j].webhook_url]
    /\ pmessage_id = [j \in Jobs |-> None]
    /\ pback = [j \in Jobs |-> 0]
    /\ psleep = [j \in Jobs |-> 0]
    /\ pelapsed = [j \in Jobs |-> 0]
    /\ ptick = [j \in Jobs |-> 0]
    /\ offer = [j \in Jobs |-> NoPayload]
    /\ chan = [j \in Jobs |-> <<>>]
    /\ wpc = [j \in Jobs |-> IF j \in active THEN "recv" ELSE "closed"]
    /\ wpayload = [j \in Jobs |-> NoPayload]
    /\ wmessage_id = [j \in Jobs |-> None]
    /\ wbuf = [j \in Jobs |-> <<>>]
    /\ cancelling = FALSE
    /\ faults = injected
    /\ sentLog = [j \in Jobs |-> <<>>]
    /\ dispLog = [j \in Jobs |-> <<>>]
    /\ wlast = [j \in Jobs |-> NoCall]
    /\ perr = [j \in Jobs |-> "none"]
    /\ writes = [s \in Servers |-> 0]
    /\ pfails = [j \in Jobs |-> 0]
    /\ ApiIdle

\* the config file is as it was when the supervisor loaded it
PipeStart(active, start, injected, clocks) ==
    PipeStartWith(active, start, injected, clocks, StartConfigs)

\* one job of the server runs
InitPipe == PipeStart(ActiveJobs, StartFiles, 0, {SteadyClock})

\* every job of the server runs, starting with no persisted file; one
\* failure is injected at most
InitJobs == PipeStart(Jobs, {AbsentFile}, MaxFaults - 1, {SteadyClock})

\* ---------------------------------------------------------------- producer
\* (mutant) a failed reload of the config leaves the producer as an
\* exception of its task
ProducerTickRaises(j) ==
    /\ UNCHANGED faults
    /\ ppc[j] = "tick"
    /\ ~cfgfile[Srv(j)].valid
    /\ ppc' = [ppc EXCEPT ![j] = "crashed"]
    /\ cancelling' = TRUE
    /\ perr' = [perr EXCEPT ![j] = "ValueError"]
    /\ UNCHANGED <<writes, pfails>>
    /\ UNCHANGED <<pconfig, penabled, pwebhook_url, pmessage_id, pback, psleep,
                   pelapsed, ptick, offer>>
    /\ UNCHANGED <<storeVars, soloVars, workVars, cfgfile, chan, live, nextId,
                   sentLog, dispLog, wlast>>

\* the top of the loop up to its first await: the config reload when due,
\* then the disabled sleep or the call of the content builder
ProducerTick(j) ==
    /\ UNCHANGED faults
    /\ ppc[j] = "tick"
    /\ \E due \in BOOLEAN :
         LET file == cfgfile[Srv(j)]
             reload == due
             config == IF reload THEN file ELSE pconfig[j]
             enabled == IF reload THEN get_producer_config_values(file, Key(j))
                        ELSE penabled[j]
             t == Table(Srv(j))
         IN  IF reload /\ ~file.valid
             THEN \* load_config raised: log and break, which closes the channel
                  /\ ppc' = [ppc EXCEPT ![j] = "done"]
                  /\ UNCHANGED <<pconfig, penabled, pmessage_id, psleep>>
             ELSE /\ pconfig' = [pconfig EXCEPT ![j] = config]
                  /\ penabled' = [penabled EXCEPT ![j] = enabled]
                  /\ IF ~enabled
                     THEN /\ ppc' = [ppc EXCEPT ![j] = "disabled"]
                          /\ psleep' = [psleep EXCEPT ![j] = DISABLED_SECTION_SLEEP_TIMER]
                          /\ UNCHANGED pmessage_id
                     ELSE /\ ptick[j] < MaxTicks
                          /\ ppc' = [ppc EXCEPT ![j] = "build"]
                          /\ UNCHANGED psleep
                          /\ pmessage_id' = [pmessage_id EXCEPT ![j] =
                                IF Key(j) \in TableKeys(t) THEN TableGet(t, Key(j))
                                ELSE None]
    /\ UNCHANGED <<pwebhook_url, pback, pelapsed, ptick, offer>>
    /\ perr' = [perr EXCEPT ![j] = "none"]
    /\ UNCHANGED <<writes, pfails>>
    /\ UNCHANGED <<storeVars, soloVars, workVars, envVars, sentLog, dispLog, wlast>>

\* the content builder returns: the payload is offered on the channel
ProducerBuilt(j) ==
    /\ UNCHANGED faults
    /\ ppc[j] = "build"
    /\ ptick' = [ptick EXCEPT ![j] = @ + 1]
    /\ offer' = [offer EXCEPT ![j] =
                    [seq |-> ptick[j] + 1, message_id |-> pmessage_id[j],
                     webhook_url |-> pwebhook_url[j], output |-> pconfig[j].output]]
    /\ ppc' = [ppc EXCEPT ![j] = "send"]
    /\ UNCHANGED <<pconfig, penabled, pwebhook_url, pmessage_id, pback, psleep,
                   pelapsed>>
    /\ UNCHANGED <<storeVars, soloVars, workVars, envVars, histVars>>

\* the exceptions a content builder lets out: those of get_api_result
\* (RuntimeError once with_retry gave up) and its own ValueError
BuildErrors == {"RequestError", "HTTPStatusError", "RuntimeError", "KeyError",
                "ValueError"}
\* (mutant) the producer backs off on every exception of a poll
BackedOffAll == BuildErrors
\* except* (httpx.RequestError, httpx.HTTPStatusError)
BackedOffExceptions == {"RequestError", "HTTPStatusError"}

\* the content builder raises an exception the except* clause matches:
\* sleep next(back_offs)
ProducerBuildFailed(j, exc) ==
    /\ faults < MaxFaults
    /\ faults' = faults + 1
    /\ ppc[j] = "build"
    /\ exc \in BackedOffExceptions
    /\ perr' = [perr EXCEPT ![j] = exc]
    /\ pfails' = [pfails EXCEPT ![j] = @ + 1]
    /\ UNCHANGED writes
    /\ psleep' = [psleep EXCEPT ![j] = back_offs[pback[j] + 1]]
    /\ pback' = [pback EXCEPT ![j] = (@ + 1) % Len(back_offs)]
    /\ ppc' = [ppc EXCEPT ![j] = "backoff"]
    /\ UNCHANGED <<pconfig, penabled, pwebhook_url, pmessage_id, pelapsed, ptick,
                   offer>>
    /\ UNCHANGED <<storeVars, soloVars, workVars, envVars, sentLog, dispLog, wlast>>

\* the content builder raises anything else: the task ends with the
\* exception, which cancels the nursery
ProducerCrash(j, exc) ==
    /\ faults < MaxFaults
    /\ faults' = faults + 1
    /\ ppc[j] = "build"
    /\ exc \notin BackedOffExceptions
    /\ perr' = [perr EXCEPT ![j] = exc]
    /\ UNCHANGED <<writes, pfails>>
    /\ ppc' = [ppc EXCEPT ![j] = "crashed"]
    /\ cancelling' = TRUE
    /\ UNCHANGED <<pconfig, penabled, pwebhook_url, pmessage_id, pback, psleep,
                   pelapsed, ptick, offer>>
    /\ UNCHANGED <<storeVars, soloVars, workVars, cfgfile, chan, live, nextId,
                   sentLog, dispLog, wlast>>

\* a sleep of the producer ends
ProducerWake(j) ==
    /\ UNCHANGED faults
    /\ ppc[j] \in {"sleep", "backoff", "disabled"}
    /\ ppc' = [ppc EXCEPT ![j] = "tick"]
    \* the times of the tick that is over are not read again
    /\ psleep' = [psleep EXCEPT ![j] = 0]
    /\ pelapsed' = [pelapsed EXCEPT ![j] = 0]
    /\ UNCHANGED <<pconfig, penabled, pwebhook_url, pmessage_id, pback, ptick, offer>>
    /\ UNCHANGED <<storeVars, soloVars, workVars, envVars, histVars>>

\* Cancelled is delivered to a producer waiting in an await
ProducerCancel(j) ==
    /\ UNCHANGED faults
    /\ cancelling
    /\ ppc[j] \in {"build", "send", "sleep", "backoff", "disabled"}
    /\ ppc' = [ppc EXCEPT ![j] = "cancelled"]
    /\ UNCHANGED <<pconfig, penabled, pwebhook_url, pmessage_id, pback, psleep,
                   pelapsed, ptick, offer>>
    /\ UNCHANGED <<storeVars, soloVars, workVars, envVars, histVars>>

\* ----------------------------------------------------------------- channel
\* the buffer of the job's memory channel has room
HasRoom(j) == Len(chan[j]) < CHANNEL_CAPACITY

\* (mutant) the worker takes the payload and goes back to its receive
\* without dispatching it
ChannelSendDrops(j) ==
    /\ UNCHANGED faults
    /\ ppc[j] = "send"
    /\ wpc[j] = "recv"
    /\ ppc' = [ppc EXCEPT ![j] = "sleep"]
    /\ offer' = [offer EXCEPT ![j] = NoPayload]
    /\ sentLog' = [sentLog EXCEPT ![j] = Append(@, offer[j].seq)]
    /\ \E elapsed \in clock.elapsed :
         /\ pelapsed' = [pelapsed EXCEPT ![j] = elapsed]
         /\ psleep' = [psleep EXCEPT ![j] =
                          calculate_sleep_time(0, elapsed, clock.refresh_delay)]
    /\ UNCHANGED <<pconfig, penabled, pwebhook_url, pmessage_id, pback, ptick>>
    /\ UNCHANGED <<storeVars, soloVars, workVars, envVars, dispLog, wlast, perr, writes, pfails>>

\* (mutant) the send completes only when the buffer has room: a receiver
\* that waits is not handed the payload
ChannelSendNeedsRoom(j) ==
    /\ UNCHANGED faults
    /\ ppc[j] = "send"
    /\ HasRoom(j)
    /\ chan' = [chan EXCEPT ![j] = Append(@, offer[j])]
    /\ ppc' = [ppc EXCEPT ![j] = "sleep"]
    /\ offer' = [offer EXCEPT ![j] = NoPayload]
    /\ sentLog' = [sentLog EXCEPT ![j] = Append(@, offer[j].seq)]
    /\ \E elapsed \in clock.elapsed :
         /\ pelapsed' = [pelapsed EXCEPT ![j] = elapsed]
         /\ psleep' = [psleep EXCEPT ![j] =
                          calculate_sleep_time(0, elapsed, clock.refresh_delay)]
    /\ UNCHANGED <<pconfig, penabled, pwebhook_url, pmessage_id, pback, ptick>>
    /\ UNCHANGED <<storeVars, soloVars, workVars, cfgfile, live, nextId, cancelling,
                   dispLog, wlast, perr, writes, pfails>>

\* await send_channel.send(payload) completes: the payload goes straight to
\* a worker waiting in its receive, or into the buffer when there is room;
\* otherwise the send stays blocked
ChannelSend(j) ==
    /\ UNCHANGED faults
    /\ ppc[j] = "send"
    /\ IF wpc[j] = "recv" /\ chan[j] = <<>>
       THEN /\ wpayload' = [wpayload EXCEPT ![j] = offer[j]]
            /\ wmessage_id' = [wmessage_id EXCEPT ![j] = offer[j].message_id]
            /\ wpc' = [wpc EXCEPT ![j] = "got"]
            /\ UNCHANGED chan
       ELSE /\ HasRoom(j)
            /\ chan' = [chan EXCEPT ![j] = Append(@, offer[j])]
            /\ UNCHANGED <<wpayload, wmessage_id, wpc>>
    /\ ppc' = [ppc EXCEPT ![j] = "sleep"]
    /\ offer' = [offer EXCEPT ![j] = NoPayload]
    /\ sentLog' = [sentLog EXCEPT ![j] = Append(@, offer[j].seq)]
    /\ \E elapsed \in clock.elapsed :
         /\ pelapsed' = [pelapsed EXCEPT ![j] = elapsed]
         /\ psleep' = [psleep EXCEPT ![j] =
                          calculate_sleep_time(0, elapsed, clock.refresh_delay)]
    /\ UNCHANGED <<pconfig, penabled, pwebhook_url, pmessage_id, pback, ptick>>
    /\ UNCHANGED <<storeVars, soloVars, wbuf, cfgfile, live, nextId, cancelling,
                   dispLog, wlast, perr, writes, pfails>>

\* (mutant) the loop is not inside `async with send_channel`: the channel
\* is closed only when the producer task ends by an exception
ChannelClosedOnRaiseOnly(j) ==
    /\ UNCHANGED faults
    /\ wpc[j] = "recv"
    /\ chan[j] = <<>>
    /\ ppc[j] \in {"crashed", "cancelled"}
    /\ wpc' = [wpc EXCEPT ![j] = "closed"]
    /\ UNCHANGED <<wpayload, wmessage_id, wbuf, chan>>
    /\ UNCHANGED <<storeVars, soloVars, prodVars, envVars, histVars>>

\* the worker's receive finds the channel empty and its send side closed
\* (the producer left its `async with send_channel`): the loop ends
ChannelClosed(j) ==
    /\ UNCHANGED faults
    /\ wpc[j] = "recv"
    /\ chan[j] = <<>>
    /\ ppc[j] \in {"done", "crashed", "cancelled"}
    /\ wpc' = [wpc EXCEPT ![j] = "closed"]
    /\ UNCHANGED <<wpayload, wmessage_id, wbuf, chan>>
    /\ UNCHANGED <<storeVars, soloVars, prodVars, envVars, histVars>>

\* ------------------------------------------------------------------ worker
\* the file save_message_ids_to_disk writes for the payload in hand
FlushFile(j) == save_file(Srv(j), wpayload[j].output)

\* the body of the receive loop up to its first await: send_for_webhook is
\* called with the payload and makes its edit or create request.  A payload
\* left in the buffer is taken first.
WorkerDispatch(j) ==
    /\ UNCHANGED faults
    /\ wpc[j] \in {"got", "recv"}
    /\ wpc[j] = "recv" => chan[j] # <<>>
    /\ LET payload == IF wpc[j] = "got" THEN wpayload[j] ELSE Head(chan[j])
       IN  /\ wpayload' = [wpayload EXCEPT ![j] = payload]
           /\ wmessage_id' = [wmessage_id EXCEPT ![j] = payload.message_id]
           /\ dispLog' = [dispLog EXCEPT ![j] = Append(@, payload.seq)]
           /\ wlast' = [wlast EXCEPT ![j] = NoCall]
    /\ chan' = [chan EXCEPT ![j] = IF wpc[j] = "got" THEN @ ELSE Tail(@)]
    /\ wpc' = [wpc EXCEPT ![j] = "request"]
    /\ UNCHANGED <<storeVars, soloVars, prodVars, wbuf, cfgfile, live, nextId,
                   cancelling, sentLog, perr, writes, pfails>>

\* (mutant) a flush only when a saved document exists and differs
NeedsFlushOnlyChanged(s, h) ==
    /\ last_saved_message_ids[s] \notin {NoDoc, NoTable}
    /\ AsDict(h[s][message_ids[s]]) # AsDict(h[s][last_saved_message_ids[s]])

\* not app_store.last_saved_message_ids
\*   or app_store.message_ids != app_store.last_saved_message_ids,
\* evaluated on the heap `h`
NeedsFlush(s, h) ==
    \/ last_saved_message_ids[s] \in {NoDoc, NoTable}
    \/ AsDict(h[s][message_ids[s]]) # AsDict(h[s][last_saved_message_ids[s]])

\* (mutant) the normal path flushes after every dispatch
AfterDispatchAlwaysFlushes(j, result) ==
    LET s == Srv(j)
        h == [heap EXCEPT ![s][message_ids[s]] = save_message_id(@, Key(j), result)]
    IN  /\ heap' = h
        /\ wmessage_id' = [wmessage_id EXCEPT ![j] = result]
        /\ wpc' = [wpc EXCEPT ![j] = "f_open"]

\* send_for_webhook returned `result`: save_message_id, then the flush
\* unless the document equals the last saved one
AfterDispatch(j, result) ==
    LET s == Srv(j)
        h == [heap EXCEPT ![s][message_ids[s]] = save_message_id(@, Key(j), result)]
    IN  /\ heap' = h
        /\ wmessage_id' = [wmessage_id EXCEPT ![j] = result]
        /\ wpc' = [wpc EXCEPT ![j] = IF NeedsFlush(s, h) THEN "f_open" ELSE "recv"]

\* (mutant) the except clause flushes only when the normal path would
OnExceptionSuppressed(j) ==
    LET s == Srv(j)
        h == [heap EXCEPT ![s][message_ids[s]] =
                 save_message_id(@, Key(j), wmessage_id[j])]
    IN  /\ heap' = h
        /\ wpc' = [wpc EXCEPT ![j] = IF NeedsFlush(s, h) THEN "x_open" ELSE "raised"]
        /\ UNCHANGED wmessage_id

\* the except clause of the worker: save_message_id with the worker's
\* message_id, then save_message_ids_to_disk whatever the last saved document
OnException(j) ==
    LET s == Srv(j)
    IN  /\ heap' = [heap EXCEPT ![s][message_ids[s]] =
                       save_message_id(@, Key(j), wmessage_id[j])]
        /\ wpc' = [wpc EXCEPT ![j] = "x_open"]
        /\ UNCHANGED wmessage_id

\* the webhook service, or the transport, answers the request
WorkerResponse(j, response) ==
    /\ wpc[j] = "request"
    /\ response \in Answers(wmessage_id[j])
    /\ IF response = "200" \/ (response = "404" /\ Truthy(wmessage_id[j]))
       THEN UNCHANGED faults
       ELSE faults < MaxFaults /\ faults' = faults + 1
    /\ LET created == response = "200" /\ ~Truthy(wmessage_id[j])
           r == send_for_webhook(wmessage_id[j], response, nextId + 1)
       IN  /\ \E retry_after \in (IF response = "429" THEN RetryAfters ELSE {0}) :
                 wlast' = [wlast EXCEPT ![j] =
                          [message_id |-> wmessage_id[j], response |-> response,
                           created |-> created, raised |-> r.raised,
                           result |-> IF r.raised THEN None ELSE r.result,
                           retry_after |-> retry_after,
                           stored |-> IF Key(j) \in TableKeys(Table(Srv(j)))
                                      THEN TableGet(Table(Srv(j)), Key(j))
                                      ELSE None,
                           slept |-> IF r.raised THEN 0
                                     ELSE sleep_time(r.slept, retry_after)]]
           /\ nextId' = IF created THEN nextId + 1 ELSE nextId
           /\ live' = IF created THEN live \cup {nextId + 1} ELSE live
           /\ IF r.raised THEN OnException(j)
              ELSE IF r.slept # "none"
              THEN /\ wmessage_id' = [wmessage_id EXCEPT ![j] = r.result]
                   /\ wpc' = [wpc EXCEPT ![j] = "asleep"]
                   /\ UNCHANGED heap
              ELSE AfterDispatch(j, r.result)
    /\ UNCHANGED <<message_ids, last_saved_message_ids, files, soloVars, prodVars,
                   wpayload, wbuf, cfgfile, chan, cancelling, sentLog, dispLog,
                   perr, writes, pfails>>

\* the sleep of send_for_webhook (rate limit or connection error) ends and
\* the call returns message_id
WorkerSleepDone(j) ==
    /\ UNCHANGED faults
    /\ wpc[j] = "asleep"
    /\ AfterDispatch(j, wmessage_id[j])
    /\ UNCHANGED <<message_ids, last_saved_message_ids, files, soloVars, prodVars,
                   wpayload, wbuf, envVars, histVars>>

\* trio.open_file(file, mode="w") returns: the file is truncated, and
\* tomlkit.dumps(app_store.message_ids) is taken for the write
WorkerFlushOpen(j) ==
    /\ UNCHANGED faults
    /\ wpc[j] \in {"f_open", "x_open"}
    /\ files' = [files EXCEPT ![FlushFile(j)] = File(<<>>)]
    /\ wbuf' = [wbuf EXCEPT ![j] = dumps(TRUE, Table(Srv(j)))]
    /\ wpc' = [wpc EXCEPT ![j] = IF wpc[j] = "f_open" THEN "f_close" ELSE "x_close"]
    /\ writes' = [writes EXCEPT ![Srv(j)] = @ + 1]
    /\ UNCHANGED <<heap, message_ids, last_saved_message_ids, soloVars, prodVars,
                   wpayload, wmessage_id, envVars, sentLog, dispLog, wlast, perr,
                   pfails>>

\* the write and the close of the normal path end: the text is in the
\* file, and last_saved_message_ids = copy(message_ids)
WorkerFlushClose(j) ==
    /\ UNCHANGED faults
    /\ wpc[j] = "f_close"
    /\ files' = [files EXCEPT ![FlushFile(j)] = File(wbuf[j])]
    /\ last_saved_message_ids' = [last_saved_message_ids EXCEPT ![Srv(j)] = copy(Srv(j))]
    /\ heap' = [heap EXCEPT ![Srv(j)][copy(Srv(j))] = Table(Srv(j))]
    /\ wpc' = [wpc EXCEPT ![j] = "recv"]
    /\ UNCHANGED <<message_ids, soloVars, prodVars, wpayload, wmessage_id, wbuf,
                   envVars, histVars>>

\* the write and the close of the except clause end: `raise e` ends the
\* worker, and the exception cancels the nursery
WorkerRaise(j) ==
    /\ UNCHANGED faults
    /\ wpc[j] = "x_close"
    /\ files' = [files EXCEPT ![FlushFile(j)] = File(wbuf[j])]
    /\ wpc' = [wpc EXCEPT ![j] = "raised"]
    /\ cancelling' = TRUE
    /\ UNCHANGED <<heap, message_ids, last_saved_message_ids, soloVars, prodVars,
                   wpayload, wmessage_id, wbuf, cfgfile, chan, live, nextId, histVars>>

\* Cancelled (a BaseException, which `except (Exception, KeyboardInterrupt)`
\* lets through) is delivered to a worker waiting in an await.  A file
\* operation under way ends first: an open leaves the file truncated, a
\* close leaves the text written.
WorkerCancel(j) ==
    /\ UNCHANGED faults
    /\ cancelling
    /\ wpc[j] \in {"recv", "request", "asleep", "f_open", "f_close", "x_open", "x_close"}
    /\ files' = CASE wpc[j] \in {"f_open", "x_open"} ->
                       [files EXCEPT ![FlushFile(j)] = File(<<>>)]
                  [] wpc[j] \in {"f_close", "x_close"} ->
                       [files EXCEPT ![FlushFile(j)] = File(wbuf[j])]
                  [] OTHER -> files
    /\ wpc' = [wpc EXCEPT ![j] = "cancelled"]
    /\ UNCHANGED <<heap, message_ids, last_saved_message_ids, soloVars, prodVars,
                   wpayload, wmessage_id, wbuf, envVars, histVars>>

\* ------------------------------------------------------------- environment
\* someone deletes a message of the webhook
RemoteDelete(id) ==
    /\ faults < MaxFaults
    /\ faults' = faults + 1
    /\ id \in live
    /\ live' = live \ {id}
    /\ UNCHANGED <<storeVars, soloVars, prodVars, workVars, cfgfile, chan, nextId,
                   cancelling, histVars>>

\* the process is interrupted: the nursery is cancelled
Interrupt ==
    /\ faults < MaxFaults
    /\ faults' = faults + 1
    /\ ~cancelling
    /\ spc = "off"
    /\ cancelling' = TRUE
    /\ UNCHANGED <<storeVars, soloVars, prodVars, workVars, cfgfile, chan, live,
                   nextId, histVars>>

Next ==
    \/ \E j \in Jobs :
         \/ ProducerTick(j)
         \/ ProducerBuilt(j)
         \/ \E exc \in BuildErrors : ProducerBuildFailed(j, exc)
         \/ \E exc \in BuildErrors : ProducerCrash(j, exc)
         \/ ProducerWake(j)
         \/ ProducerCancel(j)
         \/ ChannelSend(j)
         \/ ChannelClosed(j)
         \/ WorkerDispatch(j)
         \/ \E response \in Responses : WorkerResponse(j, response)
         \/ WorkerSleepDone(j)
         \/ WorkerFlushOpen(j)
         \/ WorkerFlushClose(j)
         \/ WorkerRaise(j)
         \/ WorkerCancel(j)
    \/ \E id \in 1..MaxId : RemoteDelete(id)
    \/ Interrupt

Spec == InitPipe /\ [][Next]_vars

SpecJobs == InitJobs /\ [][Next]_vars

\* the config file as it may be after the supervisor loaded it: valid, the
\* job's section enabled, discord.webhook_url the same or changed
EditedConfigs == {c \in ConfigValues :
                     /\ c.valid /\ c.enabled = Range(FIELDS)
                     /\ c.output = DefaultOutput}

\* one job of the server runs and the config file may have been edited
\* since the start
InitReload == PipeStartWith(ActiveJobs, StartFiles, 0, {SteadyClock}, EditedConfigs)

SpecReload == InitReload /\ [][Next]_vars

\* the scheduler runs every task that can run: a worker whose await is over
\* goes on, every request is answered or fails, every sleep ends, a closed
\* channel ends the receive loop, and a cancelled task sees its cancellation
FairWorker(j) ==
    /\ WF_vars(WorkerDispatch(j))
    /\ WF_vars(\E response \in Responses : WorkerResponse(j, response))
    /\ WF_vars(WorkerSleepDone(j))
    /\ WF_vars(WorkerFlushOpen(j))
    /\ WF_vars(WorkerFlushClose(j))
    /\ WF_vars(WorkerRaise(j))
    /\ WF_vars(ChannelClosed(j))

\* one job of the server runs, under a fair scheduler
SpecFair == Spec /\ \A j \in Jobs : FairWorker(j)

\* a producer that can run goes on: its tick, the return of its builder, the
\* completion of its send once the worker receives, the end of its sleep
FairProducer(j) ==
    /\ WF_vars(ProducerTick(j))
    /\ WF_vars(ProducerBuilt(j))
    /\ WF_vars(ChannelSend(j))
    /\ WF_vars(ProducerWake(j))

\* one job of the server runs, producer and worker under a fair scheduler
SpecLive == Spec /\ \A j \in Jobs : FairProducer(j) /\ FairWorker(j)

\* one job runs against a server that can fail MaxBackoffs times, its sends
\* taking any of the elapsed times
InitProducer == PipeStart(ActiveJobs, {AbsentFile}, MaxFaults - MaxBackoffs, Clocks)

SpecProducer == InitProducer /\ [][Next]_vars

(***************************************************************************)
(* The CRCON API client: get_api_result under with_retry and with_login.   *)
(***************************************************************************)
\* (mutant) one more pass of the loop of with_retry
RetriesEleven == 10 + 1
\* with_retry(func, retries=10, delay_between_retries=1)
RETRIES == 10

\* what client.get ends with: a status code, or "error" when it raises an
\* httpx.RequestError (no connection, timeout)
Statuses == {"200", "401", "500", "error"}
\* what the body of a response is: JSON with a result, JSON whose result is
\* null, JSON with no "result" key, or no JSON
Bodies == {"result", "null", "nokey", "malformed"}
\* what login() ends with: the cookie, an httpx error, or a 200 with no
\* session cookie (ValueError)
LoginOutcomes == {"ok", "error", "no_cookie"}

\* response.json()["result"] and the test for None
parse_result(body) ==
    CASE body = "malformed" -> "ValueError"
      [] body = "nokey" -> "KeyError"
      [] body = "null" -> "ConnectError"
      [] OTHER -> "none"

\* (mutant) a 401 leaves the cookie and the guard as they are
get_api_result_Keeps401(status, body) ==
    CASE status = "error" -> [pop |-> FALSE, raises |-> "RequestError"]
      [] status = "401" -> [pop |-> FALSE, raises |-> parse_result(body)]
      [] status = "500" -> [pop |-> FALSE, raises |-> "HTTPStatusError"]
      [] OTHER -> [pop |-> FALSE, raises |-> parse_result(body)]

\* the body of get_api_result once client.get has ended: whether it drops
\* the session cookie and resets logging_in, and the exception it raises
get_api_result(status, body) ==
    CASE status = "error" -> [pop |-> FALSE, raises |-> "RequestError"]
      [] status = "401" -> [pop |-> TRUE, raises |-> parse_result(body)]
      [] status = "500" -> [pop |-> FALSE, raises |-> "HTTPStatusError"]
      [] OTHER -> [pop |-> FALSE, raises |-> parse_result(body)]

\* (mutant) every exception is caught by with_retry
RetriedAll ==
    {"IndexError", "ValueError", "KeyError", "ConnectError", "HTTPStatusError",
     "RequestError"}
\* the exceptions with_retry catches: except (IndexError, ValueError)
RetriedExceptions == {"IndexError", "ValueError"}

\* the test of with_login
NeedsLogin == cookies = NoCookie /\ ~logging_in

\* everything but the API client
restVars == <<storeVars, spc, soutput, persisted, prodVars, workVars, envVars,
              histVars, faults, clock, resultVars>>

\* one pass of with_retry's loop up to the first await of get_api_result:
\* with_login (login() blocks, no other task runs meanwhile), then the request
\* is built with app_store.cookies as they are now
Attempt(c, num, outcome) ==
    /\ anum' = [anum EXCEPT ![c] = num]
    /\ relogin' = FALSE
    /\ alast' = [alast EXCEPT ![c] = NoResponse]
    /\ IF NeedsLogin
       THEN /\ logging_in' = TRUE
            /\ logins' = logins + 1
            /\ abudget' = abudget - (IF outcome = "ok" THEN 0 ELSE 1)
            /\ outcome # "ok" => abudget > 0
            /\ logins < MaxLogins
            /\ IF outcome = "ok"
               THEN /\ cookies' = logins + 2
                    /\ sessions' = sessions \cup {logins + 2}
                    /\ asent' = [asent EXCEPT ![c] = logins + 2]
                    /\ apc' = [apc EXCEPT ![c] = "request"]
                    /\ aerr' = [aerr EXCEPT ![c] = "none"]
               ELSE /\ UNCHANGED <<cookies, sessions, asent>>
                    /\ IF outcome = "no_cookie" /\ "ValueError" \in RetriedExceptions
                       THEN /\ apc' = [apc EXCEPT ![c] = "sleep"]
                            /\ aerr' = [aerr EXCEPT ![c] = "none"]
                       ELSE /\ apc' = [apc EXCEPT ![c] = "failed"]
                            /\ aerr' = [aerr EXCEPT ![c] =
                                 IF outcome = "no_cookie" THEN "ValueError"
                                 ELSE "HTTPError"]
       ELSE /\ outcome = "ok"
            /\ asent' = [asent EXCEPT ![c] = cookies]
            /\ apc' = [apc EXCEPT ![c] = "request"]
            /\ aerr' = [aerr EXCEPT ![c] = "none"]
            /\ UNCHANGED <<cookies, logging_in, sessions, logins, abudget>>

\* a section's builder calls get_api_result
ApiCall(c, outcome) ==
    /\ apc[c] \in {"idle", "failed"}
    /\ acalls[c] < MaxCalls
    /\ acalls' = [acalls EXCEPT ![c] = @ + 1]
    /\ Attempt(c, 1, outcome)
    /\ sametick' = (sametick \/ \A d \in Callers :
                                  apc'[d] = "request" /\ acalls'[d] = 1 /\ anum'[d] = 1)
    /\ UNCHANGED <<cached, restVars>>

\* the request ends; the rest of get_api_result and the except clause of
\* with_retry run without an await
ApiResponse(c, status, body) ==
    LET r == get_api_result(status, body)
        fault == ~(status = "401" \/ (status = "200" /\ body = "result"))
    IN  /\ apc[c] = "request"
        \* the server answers 401, with no result, to a cookie it does not
        \* know, and never 200 to one
        /\ status = "401" => (asent[c] \notin sessions /\ body # "result")
        /\ status = "200" => asent[c] \in sessions
        /\ fault => abudget > 0
        /\ abudget' = abudget - (IF fault THEN 1 ELSE 0)
        /\ alast' = [alast EXCEPT ![c] = [status |-> status, body |-> body]]
        /\ asent' = [asent EXCEPT ![c] = NoCookie]
        /\ cookies' = IF r.pop THEN NoCookie ELSE cookies
        /\ logging_in' = IF r.pop THEN FALSE ELSE logging_in
        /\ relogin' = (relogin \/ status = "401")
        /\ IF r.raises = "none"
           THEN /\ apc' = [apc EXCEPT ![c] = "returned"]
                /\ UNCHANGED aerr
           ELSE IF r.raises \in RetriedExceptions
           THEN /\ apc' = [apc EXCEPT ![c] = "sleep"]
                /\ UNCHANGED aerr
           ELSE /\ apc' = [apc EXCEPT ![c] = "failed"]
                /\ aerr' = [aerr EXCEPT ![c] = r.raises]
        /\ UNCHANGED <<sessions, logins, anum, acalls, cached, sametick, restVars>>

\* trio.sleep(delay_between_retries) is over: the next pass of the loop, or
\* RuntimeError once `retries` passes were made
ApiRetry(c, outcome) ==
    /\ apc[c] = "sleep"
    /\ IF anum[c] < RETRIES
       THEN Attempt(c, anum[c] + 1, outcome)
       ELSE /\ outcome = "ok"
            /\ apc' = [apc EXCEPT ![c] = "failed"]
            /\ aerr' = [aerr EXCEPT ![c] = "RuntimeError"]
            /\ alast' = [alast EXCEPT ![c] = NoResponse]
            /\ UNCHANGED <<cookies, logging_in, sessions, logins, anum, asent,
                           abudget, relogin>>
    /\ UNCHANGED <<acalls, cached, sametick, restVars>>

\* the AppStore is new (no cookie), or it holds the cookie of an earlier
\* login that the server has dropped since; the sections in `callers` poll
ApiStart(callers, budget) ==
    /\ heap = NewHeap
    /\ message_ids = NewMessageIds
    /\ last_saved_message_ids = NewLastSaved
    /\ files = [p \in Paths |-> AbsentFile]
    /\ spc = "off"
    /\ soutput = DefaultOutput
    /\ persisted = {}
    /\ PipeIdle
    /\ ResultIdle
    /\ cached \in BOOLEAN
    /\ cookies = IF cached THEN CACHED_SESSION ELSE NoCookie
    /\ logging_in = cached
    /\ sessions = {}
    /\ logins = 0
    /\ apc = [c \in Callers |-> IF c \in callers THEN "idle" ELSE "done"]
    /\ anum = [c \in Callers |-> 0]
    /\ asent = [c \in Callers |-> NoCookie]
    /\ aerr = [c \in Callers |-> "none"]
    /\ alast = [c \in Callers |-> NoResponse]
    /\ acalls = [c \in Callers |-> 0]
    /\ abudget = budget
    /\ sametick = FALSE
    /\ relogin = FALSE

\* three sections of the server poll at the same tick
InitApi == ApiStart(Callers, MaxApiFaults)

\* one section polls a server that keeps failing
InitRetry == ApiStart({1}, MaxRetryFaults)

NextApi ==
    \E c \in Callers :
        \/ \E outcome \in LoginOutcomes : ApiCall(c, outcome)
        \/ \E status \in Statuses, body \in Bodies : ApiResponse(c, status, body)
        \/ \E outcome \in LoginOutcomes : ApiRetry(c, outcome)

SpecApi == InitApi /\ [][NextApi]_vars

SpecRetry == InitRetry /\ [][NextApi]_vars

\* every request is answered or fails (client.get returns or raises) and
\* every trio.sleep ends
FairApi ==
    \A c \in Callers :
        /\ WF_vars(\E status \in Statuses, body \in Bodies : ApiResponse(c, status, body))
        /\ WF_vars(\E outcome \in LoginOutcomes : ApiRetry(c, outcome))

SpecRetryFair == SpecRetry /\ FairApi

(***************************************************************************)
(* SpecResult: what get_api_result hands to its caller, by the type of     *)
(* the result in the response.                                             *)
(***************************************************************************)
\* isinstance(result, str) or isinstance(result, int)
\*   or isinstance(result, list); a bool is an int
IsPlain(result) == result.type \in {"str", "int", "bool", "list"}

\* the end of get_api_result: a null result raises ConnectError, a plain
\* result is wrapped into {"result": result}, anything else is returned as
\* it is
wrap_result(result) ==
    IF result.type = "null" THEN [raises |-> "ConnectError", return |-> NoReturn]
    ELSE [raises |-> "none",
          return |-> [wrapped |-> IsPlain(result), value |-> result]]

\* the statuses after which get_api_result reads the result
ResultStatuses == {"200", "401"}

InitResult ==
    /\ heap = NewHeap
    /\ message_ids = NewMessageIds
    /\ last_saved_message_ids = NewLastSaved
    /\ files = [p \in Paths |-> AbsentFile]
    /\ spc = "off"
    /\ soutput = DefaultOutput
    /\ persisted = {}
    /\ PipeIdle
    /\ ApiIdle
    /\ jpc = "idle"
    /\ jresponse = [status |-> "none", result |-> NoJson]
    /\ jreturn = NoReturn

resultRest == <<storeVars, spc, soutput, persisted, apiVars, prodVars, workVars,
                envVars, histVars, faults, clock>>

\* a content builder calls get_api_result and the server answers with a
\* body that is JSON and has a result
ResultCall(status, result) ==
    /\ jpc \in {"idle", "returned", "raised"}
    /\ jpc' = "answered"
    /\ jresponse' = [status |-> status, result |-> result]
    /\ jreturn' = NoReturn
    /\ UNCHANGED resultRest

\* response.json()["result"] is read and the call ends
ResultReturn ==
    /\ jpc = "answered"
    /\ LET r == wrap_result(jresponse.result)
       IN  /\ jpc' = IF r.raises = "none" THEN "returned" ELSE "raised"
           /\ jreturn' = r.return
    /\ UNCHANGED <<jresponse, resultRest>>

NextResult ==
    \/ \E status \in ResultStatuses, result \in JsonValues : ResultCall(status, result)
    \/ ResultReturn

SpecResult == InitResult /\ [][NextResult]_vars

(***************************************************************************)
(* Claims about the pipeline.                                              *)
(***************************************************************************)
\* payloads a producer has built that its worker has not received yet
InFlight(j) == Len(chan[j]) + (IF ppc[j] = "send" THEN 1 ELSE 0)

\* payloads the worker of j has received
Received(j) == Len(dispLog[j]) + (IF wpc[j] = "got" THEN 1 ELSE 0)

\* C1: at most one payload per job is in flight between the producer and
\* the worker, and a send has completed only when its payload has been
\* received (so a second send blocks until then).
C1_AtMostOneInFlight ==
    \A j \in Jobs : InFlight(j) <= 1 /\ Len(sentLog[j]) = Received(j)

\* the producer is blocked in its second send while the worker is still
\* busy with the first payload
C1_Witness ==
    \E j \in Jobs : ppc[j] = "send" /\ offer[j].seq = 2 /\ wpc[j] = "asleep"
                    /\ wpayload[j].seq = 1

\* C2: the worker hands the payloads to the dispatcher in the order the
\* producer sent them, each payload whose send completed exactly once.
C2_InOrderExactlyOnce ==
    \A j \in Jobs :
        /\ sentLog[j] = [i \in 1..Len(sentLog[j]) |-> i]
        /\ Len(dispLog[j]) <= Len(sentLog[j])
        /\ dispLog[j] = SubSeq(sentLog[j], 1, Len(dispLog[j]))
        /\ Len(sentLog[j]) - Len(dispLog[j]) = (IF wpc[j] = "got" THEN 1 ELSE 0)

\* two payloads were sent and both were dispatched
C2_Witness == \E j \in Jobs : sentLog[j] = <<1, 2>> /\ dispLog[j] = <<1, 2>>

\* the entry of `key` in the file the workers of server s flush to;
\* None when the file is absent, empty or lacks the key
OnDisk(s, key) ==
    LET f == files[save_file(s, DefaultOutput)]
        doc == loads(f.lines)
    IN  IF f.exists /\ doc.ok /\ key \in TableKeys(doc.table)
        THEN TableGet(doc.table, key) ELSE None

\* C3: every dispatch attempt that changes the id in memory is followed by
\* a flush that writes it: once the worker has dealt with the result of its
\* dispatch and waits for the next payload, the file holds the id the store
\* holds.
C3_EveryChangeFlushed ==
    \A j \in Jobs :
        (wpc[j] \in {"recv", "closed"} /\ dispLog[j] # <<>>)
        => OnDisk(Srv(j), Key(j)) = TableGet(Table(Srv(j)), Key(j))

\* the last call of send_for_webhook by the worker of j has returned
Returned(j) == wlast[j].response # "none" /\ ~wlast[j].raised /\ wpc[j] # "asleep"

\* the last call was an edit that the service answered with not-found
StaleEdit(j) == Truthy(wlast[j].message_id) /\ wlast[j].response = "404"

\* C4 as stated: an edit answered with not-found creates a new message in
\* the same call and returns its id.
C4_StaleEditCreates ==
    \A j \in Jobs :
        (StaleEdit(j) /\ Returned(j))
        => (wlast[j].created /\ Truthy(wlast[j].result))

\* C4 as amended: an edit answered with not-found makes send_for_webhook
\* return None without creating a message and without raising; the worker
\* stores NONE_MESSAGE_ID for the section.
C4_StaleEditReturnsNone ==
    \A j \in Jobs :
        StaleEdit(j)
        => /\ ~wlast[j].raised
           /\ ~wlast[j].created
           /\ wlast[j].result = None
           /\ wpc[j] \notin {"x_open", "x_close", "raised"}
           /\ TableGet(Table(Srv(j)), Key(j)) = NONE_MESSAGE_ID

C4_Witness == \E j \in Jobs : StaleEdit(j) /\ Returned(j) /\ wpc[j] = "recv"

\* C5: when the dispatch raises an unexpected exception the worker stores
\* its message id, flushes whatever the last saved document is, and only
\* then lets the exception go: the worker ends raised only out of the flush
\* of its except clause, with the stored id in the file.
C5_CrashFlushThenRaise ==
    [][\A j \in Jobs :
         (wpc[j] # "raised" /\ wpc'[j] = "raised")
         => /\ wpc[j] = "x_close"
            /\ wlast[j].raised
            /\ TableGet(Table(Srv(j)), Key(j)) =
                 (IF wmessage_id[j] = None THEN NONE_MESSAGE_ID ELSE wmessage_id[j])
            /\ files'[FlushFile(j)] = File(dumps(TRUE, Table(Srv(j))))]_vars

\* a worker raised although the store equalled the last saved document
C5_Witness ==
    \E j \in Jobs : /\ wpc[j] = "raised"
                    /\ last_saved_message_ids[Srv(j)] # NoDoc
                    /\ ~NeedsFlush(Srv(j), heap)

\* C6: a worker cancelled at a suspension point still runs the flush of its
\* except clause before it ends.
C6_CancelRunsCrashFlush ==
    [][\A j \in Jobs :
         (wpc[j] # "cancelled" /\ wpc'[j] = "cancelled")
         => wpc[j] = "x_close"]_vars

\* C11: a poll that ends with the RuntimeError of exhausted retries does not
\* end the producer: it backs off and polls again.
C11_ExhaustedRetriesKeepProducer ==
    \A j \in Jobs : perr[j] = "RuntimeError" => ppc[j] # "crashed"

\* C12: a producer leaves the top of its loop for good only because the
\* config it reloaded does not validate, and then it ends without an
\* exception: the nursery is not cancelled, and no other producer and no
\* dispatch worker changes its state in that step.
C12_ReloadFailureEndsOnlyThatJob ==
    [][\A j \in Jobs :
         (ppc[j] = "tick" /\ ppc'[j] \notin {"tick", "build", "disabled"})
         => /\ ~cfgfile[Srv(j)].valid
            /\ ppc'[j] = "done"
            /\ cancelling' = cancelling
            /\ wpc' = wpc
            /\ \A k \in Jobs \ {j} : ppc'[k] = ppc[k]]_vars

\* a producer ended on its reload while the other job of the server, not
\* cancelled, is in the middle of a dispatch of its second payload
C12_Witness ==
    \E j \in Jobs, k \in Jobs :
        /\ j # k
        /\ ppc[j] = "done" /\ wpc[j] = "closed" /\ ptick[j] = 1
        /\ ~cancelling
        /\ dispLog[k] = <<1, 2>> /\ wpc[k] = "request"

\* the last call of the worker of j was answered as rate limited and did
\* not raise
RateLimitedCall(j) == wlast[j].response = "429" /\ ~wlast[j].raised

\* C13 as stated: a rate-limited send_for_webhook sleeps at least
\* retry_after, creates nothing and returns None.
C13_RateLimitedReturnsNone ==
    \A j \in Jobs :
        RateLimitedCall(j)
        => /\ wlast[j].slept >= wlast[j].retry_after * 100
           /\ ~wlast[j].created
           /\ wlast[j].result = None

\* C13 as amended: a rate-limited send_for_webhook sleeps retry_after plus
\* the margin, creates nothing and returns the message id it was called
\* with.
C13_RateLimitedReturnsSameId ==
    \A j \in Jobs :
        RateLimitedCall(j)
        => /\ wlast[j].slept = wlast[j].retry_after * 100 + SAFETY_MARGIN
           /\ wlast[j].slept >= wlast[j].retry_after * 100
           /\ ~wlast[j].created
           /\ wlast[j].result = wlast[j].message_id

\* a rate-limited edit with retry_after 2 has slept and returned
C13_Witness ==
    \E j \in Jobs : /\ RateLimitedCall(j) /\ Truthy(wlast[j].message_id)
                     /\ wlast[j].retry_after = 2 /\ wpc[j] = "recv"

\* C14: once the worker has processed the result of a rate-limited dispatch
\* the store entry of the job is what it was before the dispatch.
C14_RateLimitKeepsStoredId ==
    \A j \in Jobs :
        (RateLimitedCall(j) /\ wpc[j] # "asleep")
        => TableGet(Table(Srv(j)), Key(j)) = wlast[j].stored

\* the last call of the worker of j could not connect
ConnectFailedCall(j) == wlast[j].response = "connect_error"

\* C15 as stated: a send_for_webhook that cannot connect sleeps for
\* disabled_section_sleep_timer and returns None.
C15_ConnectErrorReturnsNone ==
    \A j \in Jobs :
        ConnectFailedCall(j)
        => /\ wlast[j].slept = DISABLED_SECTION_SLEEP_TIMER * 100
           /\ wlast[j].result = None

\* C15 as amended: a send_for_webhook that cannot connect sleeps for
\* disabled_section_sleep_timer and returns, without raising, the message id
\* it was called with.
C15_ConnectErrorReturnsSameId ==
    \A j \in Jobs :
        ConnectFailedCall(j)
        => /\ ~wlast[j].raised
           /\ wlast[j].slept = DISABLED_SECTION_SLEEP_TIMER * 100
           /\ ~wlast[j].created
           /\ wlast[j].result = wlast[j].message_id

\* an edit that could not connect has slept and returned
C15_Witness ==
    \E j \in Jobs : /\ ConnectFailedCall(j) /\ Truthy(wlast[j].message_id)
                     /\ wpc[j] = "recv"

\* send_for_webhook returns to the worker of j in this step
DispatchReturns(j) ==
    wpc[j] \in {"request", "asleep"} /\ wpc'[j] \in {"f_open", "recv"}

\* C16: in the normal path the worker writes nothing to disk when, the
\* result stored, the document in memory equals the last flushed one; so a
\* repeated dispatch that leaves the id as it was flushed writes nothing.
C16_NoWriteWhenUnchanged ==
    [][\A j \in Jobs :
         (DispatchReturns(j) /\ ~NeedsFlush(Srv(j), heap'))
         => (wpc'[j] = "recv" /\ writes' = writes)]_vars

\* the second dispatch of a job edited the flushed message and nothing was
\* written for it
C16_Witness ==
    \E j \in Jobs :
        /\ dispLog[j] = <<1, 2>> /\ wpc[j] = "recv"
        /\ wlast[j].response = "200" /\ Truthy(wlast[j].message_id)
        /\ wlast[j].result = wlast[j].stored
        /\ OnDisk(Srv(j), Key(j)) = wlast[j].result
        /\ writes[Srv(j)] = 1

\* the worker of j has finished the first dispatch of its server, which
\* created a message
FirstDispatchCreated(j) ==
    /\ dispLog[j] = <<1>> /\ wpc[j] = "recv"
    /\ \A k \in Jobs \ {j} : Srv(k) = Srv(j) => dispLog[k] = <<>>
    /\ wlast[j].response = "200" /\ wlast[j].created

\* C17: starting with no persisted file (every known section loaded as 0,
\* nothing flushed), after the first dispatch created message n the entry
\* of the section is n and the store has been written to disk exactly once,
\* with n.
C17_FirstDispatchStoredFlushedOnce ==
    \A j \in Jobs :
        FirstDispatchCreated(j)
        => /\ wlast[j].stored = NONE_MESSAGE_ID
           /\ Truthy(wlast[j].result)
           /\ TableGet(Table(Srv(j)), Key(j)) = wlast[j].result
           /\ writes[Srv(j)] = 1
           /\ OnDisk(Srv(j), Key(j)) = wlast[j].result

C17_Witness ==
    \E j \in Jobs : FirstDispatchCreated(j) /\ writes[Srv(j)] = 1
                     /\ TableGet(Table(Srv(j)), Key(j)) = 1

Max(a, b) == IF a >= b THEN a ELSE b
Abs(a) == IF a >= 0 THEN a ELSE 0 - a

\* refresh_delay minus the elapsed time of the tick of job j, in ticks
Remainder(j) == clock.refresh_delay * TicksPerSecond - pelapsed[j]

\* the starts of a tick for which calculate_sleep_time is evaluated
Starts == 0..MaxElapsed

\* C23 as stated: after a send the producer sleeps calculate_sleep_time,
\* which is exactly max(1, refresh - (end - start)) for every start <= end.
C23_SleepIsExactRemainder ==
    \A j \in Jobs :
        ppc[j] = "sleep"
        => \A start \in Starts :
              /\ psleep[j] = calculate_sleep_time(start, start + pelapsed[j],
                                                  clock.refresh_delay)
              /\ psleep[j] >= 1
              /\ psleep[j] * TicksPerSecond = Max(TicksPerSecond, Remainder(j))

\* C23 as amended: after a send the producer sleeps calculate_sleep_time,
\* which is the remainder rounded to the nearest whole second (a tie to the
\* even one) and 1 when that is not positive: never below 1, and within
\* half a second of max(1, refresh - (end - start)).
C23_SleepIsRoundedRemainder ==
    \A j \in Jobs :
        ppc[j] = "sleep"
        => \A start \in Starts :
              /\ psleep[j] = calculate_sleep_time(start, start + pelapsed[j],
                                                  clock.refresh_delay)
              /\ psleep[j] >= 1
              /\ IF 2 * Remainder(j) > TicksPerSecond
                 THEN /\ 2 * Abs(psleep[j] * TicksPerSecond - Remainder(j))
                            <= TicksPerSecond
                      /\ 2 * Abs(psleep[j] * TicksPerSecond - Remainder(j))
                            = TicksPerSecond => psleep[j] % 2 = 0
                 ELSE psleep[j] = 1
              /\ 2 * Abs(psleep[j] * TicksPerSecond
                         - Max(TicksPerSecond, Remainder(j))) <= TicksPerSecond

\* a send ended between one and two seconds before the refresh is due, at
\* no whole second, and the producer sleeps 2 seconds
C23_Witness ==
    \E j \in Jobs : /\ ppc[j] = "sleep" /\ psleep[j] = 2
                     /\ Remainder(j) > TicksPerSecond
                     /\ Remainder(j) < 2 * TicksPerSecond

\* the config the producer of j loaded last has its section disabled
Disabled(j) == Key(j) \notin pconfig[j].enabled

\* C24: in a tick whose config has the section disabled the producer calls
\* no content builder and sends nothing: it sleeps
\* disabled_section_sleep_timer and then starts the next tick.
C24_DisabledOnlySleeps ==
    [][\A j \in Jobs :
         /\ (ppc[j] = "tick" /\ ppc'[j] \notin {"tick", "done"} /\ Disabled(j)')
            => /\ ppc'[j] = "disabled"
               /\ psleep'[j] = DISABLED_SECTION_SLEEP_TIMER
               /\ ptick'[j] = ptick[j] /\ offer'[j] = offer[j]
               /\ sentLog'[j] = sentLog[j] /\ chan'[j] = chan[j]
         /\ (ppc[j] = "disabled" /\ ppc'[j] # "disabled")
            => \/ ppc'[j] = "tick" /\ ptick'[j] = ptick[j] /\ sentLog'[j] = sentLog[j]
               \/ cancelling /\ ppc'[j] = "cancelled"
         /\ (ppc[j] # "build" /\ ppc'[j] = "build") => ~Disabled(j)']_vars

\* a producer whose section is disabled sleeps, nothing built or sent
C24_Witness ==
    \E j \in Jobs : /\ ppc[j] = "disabled" /\ Disabled(j)
                     /\ psleep[j] = DISABLED_SECTION_SLEEP_TIMER
                     /\ ptick[j] = 0 /\ sentLog[j] = <<>>

\* the call ended in a failure the dispatcher deals with itself: rate
\* limiting, no connection, or an edit of a message that is gone
DispatchTransient(call) ==
    \/ call.response \in {"429", "connect_error"}
    \/ call.response = "404" /\ Truthy(call.message_id)

\* C25: a dispatch-transient failure stays inside send_for_webhook: the
\* call returns without raising, the worker goes on (its sleep over, it
\* stores the result and waits for the next payload), and neither the
\* producer nor the nursery sees an error.
C25_TransientAbsorbed ==
    [][\A j \in Jobs :
         /\ (wpc[j] = "request" /\ wpc'[j] \notin {"request", "cancelled"}
               /\ DispatchTransient(wlast'[j]))
            => /\ ~wlast'[j].raised
               /\ wpc'[j] \in {"asleep", "f_open", "recv"}
               /\ cancelling' = cancelling /\ ppc' = ppc /\ perr' = perr
         /\ (wpc[j] = "asleep" /\ wpc'[j] \notin {"asleep", "cancelled"})
            => /\ wpc'[j] \in {"f_open", "recv"}
               /\ cancelling' = cancelling /\ ppc' = ppc /\ perr' = perr
         /\ (wpc[j] # "x_open" /\ wpc'[j] = "x_open")
            => ~DispatchTransient(wlast'[j])]_vars

\* the worker was rate limited on the first payload and has taken the
\* second, the producer sleeping as after any send
C25_Witness ==
    \E j \in Jobs : /\ wlast[j].response = "429" /\ wpc[j] = "got"
                     /\ wpayload[j].seq = 2 /\ ppc[j] = "sleep" /\ ~cancelling

\* the process has shut down: the tasks were cancelled and every one of
\* them has ended
Exited ==
    /\ cancelling
    /\ \A j \in Jobs : /\ ppc[j] \in {"done", "crashed", "cancelled"}
                       /\ wpc[j] \in {"closed", "raised", "cancelled"}

\* C28: when the process shuts down, after a fatal error in a job or an
\* interrupt, every task is cancelled and the store of every server is
\* flushed one last time whatever the last saved document: the store's
\* document is in a file of the server once the process has ended.
C28_ShutdownFlushesEveryStore ==
    Exited => \A s \in Servers :
                 \E p \in Paths : files[p] = File(dumps(TRUE, Table(s)))

\* the id that `message_id` stands for: None and a missing entry mean that
\* no message exists, as 0 does
IdOf(message_id) == IF Truthy(message_id) THEN message_id ELSE NONE_MESSAGE_ID

\* the id the store holds for job j
StoredId(j) ==
    IF Key(j) \in TableKeys(Table(Srv(j)))
    THEN IdOf(TableGet(Table(Srv(j)), Key(j)))
    ELSE NONE_MESSAGE_ID

\* C29: when the worker of a job dispatches a payload, the message id the
\* payload carries is the id the store holds for the job at that moment, so
\* a create is issued only while the store holds 0 for the job.
C29_DispatchCarriesStoredId ==
    [][\A j \in Jobs :
         (wpc[j] # "request" /\ wpc'[j] = "request")
         => IdOf(wmessage_id'[j]) = StoredId(j)]_vars

\* C30: last_saved_message_ids is a snapshot of its own: a save_message_id
\* made after the snapshot was taken changes the document of message_ids and
\* leaves the document of last_saved_message_ids as it was, so the two
\* differ exactly when an id changed since the last flush.
C30_SnapshotIsIndependent ==
    [][\A s \in Servers :
         (/\ last_saved_message_ids[s] \notin {NoDoc, NoTable}
          /\ last_saved_message_ids'[s] = last_saved_message_ids[s]
          /\ heap'[s][message_ids[s]] # heap[s][message_ids[s]])
         => /\ heap'[s][last_saved_message_ids[s]] = heap[s][last_saved_message_ids[s]]
            /\ NeedsFlush(s, heap')]_vars

\* the worker of j is inside save_message_ids_to_disk
InFlush(j) == wpc[j] \in {"f_open", "f_close", "x_open", "x_close"}

\* C31: when workers of one server flush at the same time, the file holds
\* the document of message_ids once the last of them has finished: the
\* worker that ends its flush while no other worker of the server is inside
\* one leaves the current document in the file, never a text taken before
\* another worker changed an id.
C31_LastFlushWritesCurrentDocument ==
    [][\A j \in Jobs :
         (/\ wpc[j] \in {"f_close", "x_close"}
          /\ wpc'[j] \in {"recv", "raised"}
          /\ \A k \in Jobs \ {j} : Srv(k) = Srv(j) => ~InFlush(k))
         => files'[FlushFile(j)] = File(dumps(TRUE, Table(Srv(j))))]_vars

\* C32: the stored id of a job goes from a non-zero id to 0 only in the step
\* in which the webhook service answers an edit of that very id with 404;
\* a timeout or another transport error leaves the stored id as it is.
C32_ZeroOnlyAfterNotFound ==
    [][\A j \in Jobs :
         (StoredId(j) # NONE_MESSAGE_ID /\ StoredId(j)' = NONE_MESSAGE_ID)
         => /\ wlast'[j].response = "404"
            /\ wlast'[j].message_id = StoredId(j)]_vars

\* C33: while the logging_in guard of the server is set (login() blocks, so
\* no login is under way in any state) a session cookie is cached, and no
\* request is under way that carries no cookie: a login that raised does not
\* leave the guard set with nothing cached.
C33_GuardSetMeansCredential ==
    /\ logging_in => cookies # NoCookie
    /\ \A c \in Callers : apc[c] = "request" => asent[c] # NoCookie

\* C34: get_api_result hands no data of a 401 response to its caller: a
\* call that returned was not answered 401.
C34_NoDataFromUnauthorized ==
    jpc = "returned" => jresponse.status # "401"

\* the task of the worker of j has ended
WorkerEnded(j) == wpc[j] \in {"closed", "raised", "cancelled"}

\* C35: once the producer of a job has ended on its config reload, it sends
\* nothing more, its worker does not take a payload from the job's channel
\* any more, and the worker ends: it does not stay blocked on the channel.
C35_WorkerEndsAfterProducer ==
    /\ [][\A j \in Jobs :
            ppc[j] = "done"
            => /\ sentLog'[j] = sentLog[j]
               /\ wpc[j] = "recv" => wpc'[j] \in {"recv", "closed", "cancelled"}]_vars
    /\ \A j \in Jobs : (ppc[j] = "done") ~> WorkerEnded(j)

\* a producer that had sent a payload ended on its reload, and its worker,
\* not cancelled, ended after it had dispatched the payload
C35_Witness ==
    \E j \in Jobs :
        /\ ppc[j] = "done" /\ wpc[j] = "closed" /\ ~cancelling
        /\ sentLog[j] = <<1>> /\ dispLog[j] = <<1>>

\* C36: a payload the producer built after it reloaded its config carries
\* the discord.webhook_url of the config the producer now holds.
C36_PayloadCarriesReloadedUrl ==
    \A j \in Jobs :
        ppc[j] = "send" => offer[j].webhook_url = pconfig[j].webhook_url

Broken(j) ==
    \/ cancelling
    \/ WorkerEnded(j)
    \/ ppc[j] \in {"done", "crashed", "cancelled"}
    \/ ~cfgfile[Srv(j)].valid
    \/ Key(j) \notin cfgfile[Srv(j)].enabled

\* C38: under a fair scheduler, as long as the job's section is enabled, its
\* config validates and neither task has ended, the producer completes its
\* next tick (up to MaxTicks ticks), and every payload it offers is received
\* and dispatched: send and receive do not block each other for good.
C38_ProducerAndWorkerProgress ==
    \A j \in Jobs :
        /\ \A n \in 0..(MaxTicks - 1) :
              (ptick[j] = n) ~> (ptick[j] = n + 1 \/ Broken(j))
        /\ \A n \in 1..MaxTicks :
              (ppc[j] = "send" /\ offer[j].seq = n)
              ~> (n \in Range(dispLog[j]) \/ Broken(j))

\* the job ran all its ticks and every payload was dispatched, in steady
\* running
C38_Witness ==
    \E j \in Jobs :
        /\ ~Broken(j)
        /\ ptick[j] = MaxTicks
        /\ Len(dispLog[j]) = MaxTicks /\ wpc[j] = "recv"

(***************************************************************************)
(* Claims about the store.                                                 *)
(***************************************************************************)
\* the default document: every known section key mapped to NONE_MESSAGE_ID
Defaults == {<<FIELDS[i], NONE_MESSAGE_ID>> : i \in DOMAIN FIELDS}

\* the persisted file is there but is no TOML
Unparsable(f) == f.exists /\ ~loads(f.lines).ok

\* C7: load_message_ids on an absent or malformed persisted document does
\* not raise and leaves the default document in the store.
C7_LoadAbsentOrMalformedGivesDefaults ==
    \A s \in Servers :
        LET f == files[load_file(s)]
        IN  (spc \in {"loaded", "load_raised"} /\ (~f.exists \/ Unparsable(f)))
            => (spc = "loaded" /\ AsDict(Table(s)) = Defaults)

\* C8: flushing and then loading in a fresh process reproduces the mapping
\* that was flushed, whatever config.output says.
C8_RoundTrip ==
    \A s \in Servers :
        spc \in {"reloaded", "reload_raised"}
        => (spc = "reloaded" /\ AsDict(Table(s)) = persisted)

\* the store of server s has been loaded
Loaded(s) == message_ids[s] # NoTable

\* the value is an integer id
IsInteger(value) == value \notin {None, TomlString}

\* C18: once the store of a server is loaded, every known section key has
\* an entry and its value is an integer, whatever is stored afterwards
\* (None is stored as 0).
C18_KnownKeysHaveIntegerEntries ==
    \A s \in Servers :
        Loaded(s)
        => \A i \in DOMAIN FIELDS :
              /\ FIELDS[i] \in TableKeys(Table(s))
              /\ IsInteger(TableGet(Table(s), FIELDS[i]))

\* the store process has just loaded the file that is on disk
JustLoaded(s) ==
    /\ spc \in {"loaded", "reloaded"}
    /\ files[load_file(s)].exists
    /\ loads(files[load_file(s)].lines).ok

\* C19: loading and validating a persisted document keeps every key and
\* value it holds, unknown section keys included, and adds nothing but the
\* known keys it lacks, each with value 0.
C19_LoadPreservesEntries ==
    \A s \in Servers :
        JustLoaded(s)
        => LET doc == loads(files[load_file(s)].lines).table
               added == AsDict(Table(s)) \ AsDict(doc)
           IN  /\ AsDict(doc) \subseteq AsDict(Table(s))
               /\ SubSeq(Table(s), 1, Len(doc)) = doc
               /\ \A item \in added :
                     /\ item[1] \in Range(FIELDS) \ TableKeys(doc)
                     /\ item[2] = NONE_MESSAGE_ID

\* a document with an unknown key and without a known one has been loaded
C19_Witness ==
    \E s \in Servers :
        /\ JustLoaded(s)
        /\ loads(files[load_file(s)].lines).table = <<<<UNKNOWN_FIELD, 2>>, <<FIELDS[1], 1>>>>
        /\ AsDict(Table(s)) = {<<UNKNOWN_FIELD, 2>>, <<FIELDS[1], 1>>,
                               <<FIELDS[2], NONE_MESSAGE_ID>>}

\* the value is a keyed structure (a dict)
Keyed(return) == return.wrapped \/ return.value.type = "dict"

\* C27: get_api_result returns a scalar or list result wrapped as
\* {"result": value} and a keyed result as it is, so whatever it returns is
\* a keyed structure.
C27_ReturnsKeyedStructure ==
    jpc = "returned"
    => /\ jreturn.value = jresponse.result
       /\ jreturn.wrapped = (jresponse.result.type # "dict")
       /\ Keyed(jreturn)

(***************************************************************************)
(* Claims about the API client.                                            *)
(***************************************************************************)
\* every polling section has its result
AllReturned == \A c \in Callers : apc[c] = "returned"

\* C9: starting with a cached credential that the server rejects, and with
\* no other failure, once the three sections that polled at the same tick
\* have their results exactly one login call was issued.
C9_ExactlyOneLogin ==
    (cached /\ sametick /\ abudget = MaxApiFaults /\ AllReturned) => logins = 1

\* an attempt of the call of c starts in this step: with_login runs
AttemptStarts(c) == apc[c] \in {"idle", "failed", "sleep"} /\ anum'[c] # anum[c]

\* C20: a 401 response removes the session cookie and clears logging_in,
\* and the next attempt made for the server logs in before it sends its
\* request, which then carries the new cookie.
C20_UnauthorizedForcesLogin ==
    [][\A c \in Callers :
         /\ (apc[c] = "request" /\ alast'[c].status = "401")
            => (cookies' = NoCookie /\ ~logging_in' /\ relogin')
         /\ relogin => (cookies = NoCookie /\ ~logging_in)
         /\ (relogin /\ AttemptStarts(c))
            => /\ logins' = logins + 1
               /\ logging_in'
               /\ apc'[c] = "request" => (asent'[c] = cookies' /\ cookies' \in sessions'
                                           /\ cookies' \notin sessions)]_vars

\* the cached cookie was answered 401 and the retry has logged in and sent
\* its request with the new cookie
C20_Witness ==
    \E c \in Callers : /\ cached /\ logins = 1 /\ anum[c] = 2
                        /\ apc[c] = "request" /\ asent[c] = cookies
                        /\ cookies \in sessions

\* C21: a 401 response does not consume one of the attempts of the call:
\* with_retry never advances its attempt counter on account of a 401.
C21_UnauthorizedConsumesNoAttempt ==
    [][\A c \in Callers :
         (apc[c] = "sleep" /\ anum'[c] = anum[c] + 1) => alast[c].status # "401"]_vars

\* the call of c is under way
Calling(c) == apc[c] \in {"request", "sleep"}
\* the call of c is over: it returned a result or ended with an exception
Ended(c) == apc[c] \in {"returned", "failed"}

\* C26: a call of get_api_result makes at most 10 attempts and ends: it
\* returns as soon as an attempt succeeds, with that result, and once the
\* tenth attempt has failed it ends with an error without another request.
C26_TerminatesWithinTenAttempts ==
    /\ [](\A c \in Callers : anum[c] <= 10)
    /\ [][\A c \in Callers :
            /\ (apc[c] = "request" /\ alast'[c] = [status |-> "200", body |-> "result"])
               => (apc'[c] = "returned" /\ anum'[c] = anum[c])
            /\ (apc[c] # "returned" /\ apc'[c] = "returned")
               => alast'[c] = [status |-> "200", body |-> "result"]
            /\ (apc[c] = "sleep" /\ anum[c] = 10 /\ apc'[c] # "sleep")
               => (apc'[c] = "failed" /\ aerr'[c] = "RuntimeError"
                   /\ anum'[c] = anum[c])]_vars
    /\ \A c \in Callers : Calling(c) ~> Ended(c)

\* ten attempts were answered with a body that is no JSON and the call
\* ended with RuntimeError
C26_Witness ==
    \E c \in Callers : apc[c] = "failed" /\ aerr[c] = "RuntimeError" /\ anum[c] = 10

\* the last response to the call of c was a transient failure: a network
\* error, a status other than 200 and 401, or a 200 whose body is malformed
\* or has no result
Transient(c) ==
    \/ alast[c].status \in {"error", "500"}
    \/ alast[c].status = "200" /\ alast[c].body # "result"

====
